---- MODULE Spec2Model ----
(***************************************************************************)
(* Model of Rule_L022._eval (src/src/sqlfluff/rules/L022.py): "Blank line  *)
(* expected but not found after CTE closing bracket", and of the           *)
(* construction of the redshift dialect by the module                      *)
(* src/src/sqlfluff/dialects/dialect_redshift.py.                          *)
(*                                                                         *)
(* Spec is the evaluation of the rule on a WITH statement and the cycle of *)
(* applying its fixes; DialectSpec is the import of the dialect module,    *)
(* one step per module-level statement.                                    *)
(*                                                                         *)
(* A segment is modelled by its kind.  Positions in expanded_segments are  *)
(* 1-based (Python index + 1); the scan counters seg_idx, comma_seg_idx    *)
(* and line_starts keep the Python values, which are offsets from the      *)
(* bracket: forward_slice[k] is expanded_segments[bracket_idx + k].        *)
(***************************************************************************)
EXTENDS Integers, Sequences, FiniteSets, TLC

\* ---------------------------------------------------------------- bounds
MaxCTEs == 2
MaxNonCode == 3
MaxPasses == 3
MaxTextLen == 2

\* -------------------------------------------------------------- segments
\* Kinds of segment in the expanded view of a with_compound_statement.
\* "columns" is the bracketed column-alias list of a CTE, "query" the
\* bracketed CTE body; both have type "bracketed" for the rule.
SegmentKinds ==
    {"with_keyword", "as_keyword", "name", "columns", "query", "comma",
     "newline", "whitespace", "comment", "body"}

is_type(seg, t) ==
    CASE t = "bracketed" -> seg \in {"columns", "query"}
      [] t = "keyword"   -> seg \in {"with_keyword", "as_keyword"}
      [] OTHER           -> seg = t

is_code(seg) == seg \notin {"newline", "whitespace", "comment"}

\* The raw text of a keyword segment, as typed, and str.upper on it.
raw(seg) ==
    CASE seg = "with_keyword" -> "with"
      [] seg = "as_keyword"   -> "as"
      [] OTHER                -> seg

upper(str) ==
    CASE str = "with" -> "WITH"
      [] str = "as"   -> "AS"
      [] OTHER        -> str

\* --------------------------------------------------------------- inputs
NonCodeKinds == {"whitespace", "newline", "comment"}

\* The lexer never yields two adjacent whitespace segments.
NoDoubleWhitespace(s) ==
    \A i \in 1..(Len(s) - 1) : ~(s[i] = "whitespace" /\ s[i + 1] = "whitespace")

NonCodeRuns(n) ==
    {s \in UNION {[1..k -> NonCodeKinds] : k \in 0..n} : NoDoubleWhitespace(s)}

\* What lies between a CTE's closing bracket and the next CTE: one comma
\* with non-code segments around it.
CommaGaps(n) ==
    UNION {{l \o <<"comma">> \o r : r \in NonCodeRuns(n - Len(l))} : l \in NonCodeRuns(n)}

PlainHead == <<"name", "whitespace", "as_keyword", "whitespace", "query">>
ColumnsHead ==
    <<"name", "whitespace", "columns", "whitespace", "as_keyword", "whitespace", "query">>

\* The heads a CTE may have within the budget: a column list brings one
\* more whitespace segment than a plain head.
CTEHeads(budget) == IF budget >= 1 THEN {PlainHead, ColumnsHead} ELSE {PlainHead}

HeadCost(c) == IF c = ColumnsHead THEN 1 ELSE 0

\* The statement from the name of the first of k CTEs to the body, with at
\* most budget optional non-code segments.
RECURSIVE CTEList(_, _)
CTEList(k, budget) ==
    IF k = 1
    THEN UNION {{c \o g \o <<"body">> : g \in NonCodeRuns(budget - HeadCost(c))} :
                    c \in CTEHeads(budget)}
    ELSE UNION {UNION {{c \o g \o rest :
                           rest \in CTEList(k - 1, budget - HeadCost(c) - (Len(g) - 1))} :
                       g \in CommaGaps(budget - HeadCost(c))} :
                    c \in CTEHeads(budget)}

Statements ==
    UNION {{<<"with_keyword", "whitespace">> \o t : t \in CTEList(n, MaxNonCode)} : n \in 1..MaxCTEs}

\* "none" stands for an absent comma_style or any value other than
\* "trailing" and "leading".
CommaStyleConfigs == {"trailing", "leading", "none"}

\* ---------------------------------------------------------------- state
VARIABLES
    context_type,       \* type of context.segment
    expanded_segments,  \* the expanded view of the statement
    self_comma_style,   \* self.comma_style
    pc,                 \* "start", "done" (returned), "raised"
    bracket_indices,    \* positions of the brackets to evaluate
    error_buffer,       \* sequence of findings
    readout,            \* the logged readout of each evaluated bracket
    raised,             \* the exception _eval raised, or "none"
    pass,               \* number of the evaluation pass
    last_fixed          \* the brackets the previous pass fixed

\* The state of dialect_redshift.py, a module executed once at import.
VARIABLES
    dialects,       \* the dialect objects, by dialect name
    keyword_sets,   \* the set objects the dialects hold, by object id
    keyword_text,   \* redshift_unreserved_keywords, redshift_reserved_keywords
    dstep,          \* the next statement of the module to execute
    at_load         \* dialects and keyword_sets as load_raw_dialect gave them

rvars == <<context_type, expanded_segments, self_comma_style, pc, bracket_indices,
           error_buffer, readout, raised, pass, last_fixed>>

dvars == <<dialects, keyword_sets, keyword_text, dstep, at_load>>

vars == <<rvars, dvars>>

\* -------------------------------------------------------- finding brackets
\* Lines 58-65: the nearest keyword before position idx, or "None".
preceding_keyword(segs, idx) ==
    LET ks == {j \in 1..(idx - 1) : is_type(segs[j], "keyword")}
    IN  IF ks = {} THEN "None"
        ELSE segs[CHOOSE j \in ks : \A k \in ks : k <= j]

is_evaluated_bracket(segs, idx) ==
    /\ is_type(segs[idx], "bracketed")
    /\ preceding_keyword(segs, idx) # "None"
    /\ upper(raw(preceding_keyword(segs, idx))) = "AS"

RECURSIVE find_brackets(_, _)
find_brackets(segs, idx) ==
    IF idx > Len(segs) THEN <<>>
    ELSE IF is_evaluated_bracket(segs, idx)
         THEN <<idx>> \o find_brackets(segs, idx + 1)
         ELSE find_brackets(segs, idx + 1)

\* ------------------------------------------------------------ forward scan
InitScan ==
    [seg_idx |-> 1, line_idx |-> 0, comma_seg_idx |-> 0, blank_lines |-> 0,
     comma_line_idx |-> -1, line_blank |-> FALSE,
     line_starts |-> <<>>, comment_lines |-> <<>>, err |-> "none"]

\* Body of the while loop, lines 97-113.  comma_line_idx -1 is None;
\* line_starts is the dict with keys 1..Len(line_starts).
scan_step(st, seg) ==
    LET s1 ==
          IF is_type(seg, "newline")
          THEN [st EXCEPT !.blank_lines = IF st.line_blank THEN @ + 1 ELSE @,
                          !.line_blank = TRUE,
                          !.line_idx = @ + 1,
                          !.line_starts = Append(@, st.seg_idx + 1)]
          ELSE IF is_type(seg, "comment")
          THEN [st EXCEPT !.line_blank = FALSE,
                          !.comment_lines = Append(@, st.line_idx)]
          ELSE IF is_type(seg, "comma")
          THEN [st EXCEPT !.comma_line_idx = st.line_idx,
                          !.comma_seg_idx = st.seg_idx]
          ELSE st
    IN  [s1 EXCEPT !.seg_idx = @ + 1]

\* The while loop, lines 93-113; forward_slice[seg_idx] past the end of the
\* list raises IndexError.
RECURSIVE scan_forward(_, _, _)
scan_forward(segs, b, st) ==
    IF b + st.seg_idx > Len(segs)
    THEN [st EXCEPT !.err = "IndexError"]
    ELSE LET seg == segs[b + st.seg_idx]
         IN  IF is_type(seg, "comma") \/ ~is_code(seg)
             THEN scan_forward(segs, b, scan_step(st, seg))
             ELSE st

\* infer_comma_style with the trailing test ahead of the oneline test.
infer_comma_style_trailing_first(st) ==
    IF st.comma_line_idx = -1 THEN "final"
    ELSE IF st.comma_line_idx = 0 THEN "trailing"
    ELSE IF st.line_idx = 0 THEN "oneline"
    ELSE IF st.comma_line_idx = st.line_idx THEN "leading"
    ELSE "floating"

\* Lines 116-125.
infer_comma_style(st) ==
    IF st.comma_line_idx = -1 THEN "final"
    ELSE IF st.line_idx = 0 THEN "oneline"
    ELSE IF st.comma_line_idx = 0 THEN "trailing"
    ELSE IF st.comma_line_idx = st.line_idx THEN "leading"
    ELSE "floating"

in_list(x, lst) == \E i \in 1..Len(lst) : lst[i] = x

\* Lines 184-186.
RECURSIVE comment_offset(_, _)
comment_offset(st, offset) ==
    IF in_list(st.line_idx - offset, st.comment_lines)
    THEN comment_offset(st, offset + 1)
    ELSE offset

\* needs_fix asking for two blank lines.
needs_fix_two_blank_lines(st) == st.blank_lines < 2

\* Line 142.
needs_fix(st) == st.blank_lines < 1

\* oneline_fix that never replaces the whitespace after the comma.
oneline_fix_never_replaces(segs, b, st, cfg, old) ==
    IF cfg = "trailing"
    THEN [fix_type |-> "create_before", fix_point |-> b + st.comma_seg_idx + 1,
          num_newlines |-> 2, err |-> "none"]
    ELSE IF cfg = "leading"
    THEN [fix_type |-> "create_before", fix_point |-> b + st.comma_seg_idx,
          num_newlines |-> 2, err |-> "none"]
    ELSE [fix_type |-> "create_before", fix_point |-> old, num_newlines |-> 2,
          err |-> IF old = 0 THEN "UnboundLocalError" ELSE "none"]

\* Lines 149-162: the fix for a oneline span.  old is the value the local
\* fix_point holds when the evaluation of the bracket starts (0: unbound);
\* with a comma_style other than "trailing" and "leading" nothing is
\* assigned and line 198 reads that value.
oneline_fix(segs, b, st, cfg, old) ==
    IF cfg = "trailing"
    THEN [fix_type |-> IF is_type(segs[b + st.comma_seg_idx + 1], "whitespace")
                       THEN "replace" ELSE "create_before",
          fix_point |-> b + st.comma_seg_idx + 1,
          num_newlines |-> 2, err |-> "none"]
    ELSE IF cfg = "leading"
    THEN [fix_type |-> "create_before", fix_point |-> b + st.comma_seg_idx,
          num_newlines |-> 2, err |-> "none"]
    ELSE [fix_type |-> "create_before", fix_point |-> old, num_newlines |-> 2,
          err |-> IF old = 0 THEN "UnboundLocalError" ELSE "none"]

\* default_fix that treats a leading comma like the other relationships.
default_fix_ignores_leading(segs, b, st, comma_style) ==
    IF is_type(segs[b + st.seg_idx - 1], "whitespace")
    THEN [fix_type |-> "replace", fix_point |-> b + st.seg_idx - 1,
          num_newlines |-> 1, err |-> "none"]
    ELSE [fix_type |-> "create_before", fix_point |-> b + st.seg_idx,
          num_newlines |-> 1, err |-> "none"]

\* default_fix that replaces its target whether or not it is whitespace.
default_fix_always_replaces(segs, b, st, comma_style) ==
    IF comma_style \in {"trailing", "final", "floating"}
    THEN [fix_type |-> "replace",
          fix_point |-> IF is_type(segs[b + st.seg_idx - 1], "whitespace")
                        THEN b + st.seg_idx - 1 ELSE b + st.seg_idx,
          num_newlines |-> 1, err |-> "none"]
    ELSE [fix_type |-> "create_before", fix_point |-> b + st.comma_seg_idx,
          num_newlines |-> 1, err |-> "none"]

\* Lines 168-181: comments are not in the way.
default_fix(segs, b, st, comma_style) ==
    IF comma_style \in {"trailing", "final", "floating"}
    THEN IF is_type(segs[b + st.seg_idx - 1], "whitespace")
         THEN [fix_type |-> "replace", fix_point |-> b + st.seg_idx - 1,
               num_newlines |-> 1, err |-> "none"]
         ELSE [fix_type |-> "create_before", fix_point |-> b + st.seg_idx,
               num_newlines |-> 1, err |-> "none"]
    ELSE [fix_type |-> "create_before", fix_point |-> b + st.comma_seg_idx,
          num_newlines |-> 1, err |-> "none"]

\* Lines 183-189: the line before the stopping line holds a comment.  A
\* line index that is no key of line_starts raises KeyError.
comment_fix(segs, b, st, old) ==
    LET key == st.line_idx - (comment_offset(st, 1) - 1)
    IN  IF key \in DOMAIN st.line_starts
        THEN [fix_type |-> "create_before", fix_point |-> b + st.line_starts[key],
              num_newlines |-> 1, err |-> "none"]
        ELSE [fix_type |-> "create_before", fix_point |-> old,
              num_newlines |-> 1, err |-> "KeyError"]

\* place_fix that gives a oneline span one newline, like the other spans.
place_fix_single_newline(segs, b, st, comma_style, cfg, old) ==
    IF comma_style = "oneline"
    THEN [oneline_fix(segs, b, st, cfg, old) EXCEPT !.num_newlines = 1]
    ELSE IF st.comment_lines = <<>> \/ ~in_list(st.line_idx - 1, st.comment_lines)
    THEN default_fix(segs, b, st, comma_style)
    ELSE comment_fix(segs, b, st, old)

\* Lines 148-193: the fix for a bracket without a blank line.
place_fix(segs, b, st, comma_style, cfg, old) ==
    IF comma_style = "oneline"
    THEN oneline_fix(segs, b, st, cfg, old)
    ELSE IF st.comment_lines = <<>> \/ ~in_list(st.line_idx - 1, st.comment_lines)
    THEN default_fix(segs, b, st, comma_style)
    ELSE comment_fix(segs, b, st, old)

\* ------------------------------------------------------------ applying fixes
\* The segments a fix leaves at position i: the payload goes before the
\* target (create_before) or takes its place (replace).  Fixes are applied
\* in order; a fix whose target an earlier fix replaced is skipped.
RECURSIVE replaced_by(_, _, _)
replaced_by(buf, i, n) ==
    IF n = 0 THEN 0
    ELSE IF replaced_by(buf, i, n - 1) # 0 THEN replaced_by(buf, i, n - 1)
    ELSE IF buf[n].fix_point = i /\ buf[n].fix_type = "replace" THEN n
    ELSE 0

newlines(n) == [k \in 1..n |-> "newline"]

RECURSIVE inserted_before(_, _, _)
inserted_before(buf, i, n) ==
    IF n = 0 THEN <<>>
    ELSE inserted_before(buf, i, n - 1) \o
         (IF /\ buf[n].fix_point = i
             /\ buf[n].fix_type = "create_before"
             /\ replaced_by(buf, i, n - 1) = 0
          THEN newlines(buf[n].num_newlines) ELSE <<>>)

RECURSIVE apply_fixes(_, _, _)
apply_fixes(segs, buf, i) ==
    IF i > Len(segs) THEN <<>>
    ELSE LET r == replaced_by(buf, i, Len(buf))
         IN  inserted_before(buf, i, Len(buf))
             \o (IF r = 0 THEN <<segs[i]>> ELSE newlines(buf[r].num_newlines))
             \o apply_fixes(segs, buf, i + 1)

\* The brackets with a finding: the ordinal of each (its position in
\* bracket_indices) with its readout.
fixed_brackets(rd, buf) ==
    {[ordinal |-> k, readout |-> rd[k]] :
        k \in {j \in 1..Len(rd) :
                  \E n \in 1..Len(buf) : buf[n].anchor = rd[j].bracket_idx + rd[j].seg_idx}}

\* ------------------------------------------------------- the bracket loop
\* Lines 74-205: the evaluation of the bracket at position b.  old is the
\* value of the local fix_point left by the brackets before it (0: unbound).
eval_bracket(segs, b, cfg, old) ==
    LET st == scan_forward(segs, b, InitScan)
        comma_style == infer_comma_style(st)
        fix == place_fix(segs, b, st, comma_style, cfg, old)
        err == IF st.err # "none" THEN st.err
               ELSE IF needs_fix(st) THEN fix.err ELSE "none"
    IN  [readout |-> [bracket_idx |-> b,
                      seg_idx |-> st.seg_idx, line_idx |-> st.line_idx,
                      comma_seg_idx |-> st.comma_seg_idx,
                      blank_lines |-> st.blank_lines,
                      comma_line_idx |-> st.comma_line_idx,
                      line_starts |-> st.line_starts,
                      comment_lines |-> st.comment_lines,
                      comma_style |-> IF st.err = "none" THEN comma_style ELSE "None"],
         err |-> err,
         found |-> err = "none" /\ needs_fix(st),
         fix_point |-> IF err = "none" /\ needs_fix(st) THEN fix.fix_point ELSE old,
         result |-> [anchor |-> b + st.seg_idx,
                     fix_type |-> fix.fix_type,
                     fix_point |-> fix.fix_point,
                     num_newlines |-> fix.num_newlines]]

\* Lines 73-205: the loop over bracket_indices from its k-th element, with
\* the findings and readouts gathered so far.  An exception ends the loop.
RECURSIVE eval_brackets(_, _, _, _, _, _, _)
eval_brackets(segs, cfg, brackets, k, old, buf, rd) ==
    IF k > Len(brackets)
    THEN [error_buffer |-> buf, readout |-> rd, raised |-> "none"]
    ELSE LET e == eval_bracket(segs, brackets[k], cfg, old)
         IN  IF e.err # "none"
             THEN [error_buffer |-> buf, readout |-> Append(rd, e.readout),
                   raised |-> e.err]
             ELSE eval_brackets(segs, cfg, brackets, k + 1, e.fix_point,
                                IF e.found THEN Append(buf, e.result) ELSE buf,
                                Append(rd, e.readout))

\* ------------------------------------------------------------ dialect text
\* Strings of the dialect module are sequences of characters, so that
\* str.split, str.strip and str.upper act on them as Python's do.
Lower ==
    <<"a", "b", "c", "d", "e", "f", "g", "h", "i", "j", "k", "l", "m",
      "n", "o", "p", "q", "r", "s", "t", "u", "v", "w", "x", "y", "z">>

Upper ==
    <<"A", "B", "C", "D", "E", "F", "G", "H", "I", "J", "K", "L", "M",
      "N", "O", "P", "Q", "R", "S", "T", "U", "V", "W", "X", "Y", "Z">>

upper_char(c) ==
    IF \E i \in 1..Len(Lower) : Lower[i] = c
    THEN Upper[CHOOSE i \in 1..Len(Lower) : Lower[i] = c]
    ELSE c

str_upper(s) == [i \in 1..Len(s) |-> upper_char(s[i])]

Whitespace == {" ", "\t", "\n", "\r"}

RECURSIVE lstrip(_)
lstrip(s) == IF s # <<>> /\ s[1] \in Whitespace THEN lstrip(Tail(s)) ELSE s

RECURSIVE rstrip(_)
rstrip(s) ==
    IF s # <<>> /\ s[Len(s)] \in Whitespace THEN rstrip(SubSeq(s, 1, Len(s) - 1)) ELSE s

strip(s) == rstrip(lstrip(s))

\* str.split(sep) with a one-character separator: the pieces between the
\* separators, empty pieces included.
RECURSIVE split(_, _)
split(s, sep) ==
    IF \A i \in 1..Len(s) : s[i] # sep
    THEN <<s>>
    ELSE LET i == CHOOSE k \in 1..Len(s) : s[k] = sep /\ \A j \in 1..(k - 1) : s[j] # sep
         IN  <<SubSeq(s, 1, i - 1)>> \o split(SubSeq(s, i + 1, Len(s)), sep)

elements(lst) == {lst[i] : i \in 1..Len(lst)}

\* Lines 35 and 40: [n.strip().upper() for n in text.split("\n")].
keyword_list(text) ==
    LET ns == split(text, "\n") IN [i \in 1..Len(ns) |-> str_upper(strip(ns[i]))]

\* Line 44: the literal list of bare functions.
bare_function_list ==
    << <<"c", "u", "r", "r", "e", "n", "t", "_", "d", "a", "t", "e">>,
       <<"s", "y", "s", "d", "a", "t", "e">> >>

\* The keyword texts of dialect_redshift_keywords: every pair of texts of
\* at most MaxTextLen characters together.
TextChars == {"a", "B", " ", "\n"}

Texts(n) == UNION {[1..k -> TextChars] : k \in 0..n}

KeywordTexts ==
    UNION {{[unreserved |-> u, reserved |-> r] : r \in Texts(MaxTextLen - Len(u))} :
              u \in Texts(MaxTextLen)}

\* ---------------------------------------------------------- dialect objects
\* A grammar definition is modelled by where it was written (the dialect
\* module and the line of the class, 0 for the loaded dialects), the names
\* its match_grammar refers to with Ref, and the list of Refs of its
\* parse_grammar.
Grammar(origin, line, match_grammar, parse_grammar) ==
    [origin |-> origin, line |-> line,
     match_grammar |-> match_grammar, parse_grammar |-> parse_grammar]

SetNames == <<"unreserved_keywords", "reserved_keywords", "bare_functions">>

\* The names of the postgres library that the redshift module refers to
\* with Ref without defining them.
ReferencedNames ==
    {"ExpressionSegment", "NumericLiteralSegment", "TableReferenceSegment",
     "ColumnReferenceSegment", "TemporaryGrammar", "IfNotExistsGrammar",
     "DatatypeSegment", "SelectableGrammar", "BracketedColumnReferenceListGrammar",
     "ValuesClauseSegment", "SchemaReferenceSegment", "NakedIdentifierSegment",
     "DatabaseReferenceSegment", "QuotedLiteralSegment", "EqualsSegment",
     "LiteralGrammar"}

\* The names the redshift module replaces.
ReplacedNames ==
    {"WellKnownTextGeometrySegment", "DatePartFunctionNameSegment", "FunctionSegment",
     "ColumnConstraintSegment", "TableConstraintSegment", "LikeOptionSegment",
     "CreateTableStatementSegment", "InsertStatementSegment", "AccessStatementSegment",
     "StatementSegment"}

\* The statement kinds the StatementSegment of a loaded dialect may list.
StatementLists ==
    {<<"SelectableGrammar">>,
     <<"SelectableGrammar", "InsertStatementSegment", "AccessStatementSegment",
       "CreateTableStatementSegment">>}

\* The Refs of the FunctionSegment of ansi.
FunctionGrammars ==
    {{"ExpressionSegment"}, {"ExpressionSegment", "DatePartFunctionNameSegment"}}

library_of(origin, stmts, fn) ==
    [n \in ReferencedNames \cup ReplacedNames |->
        CASE n = "StatementSegment" -> Grammar(origin, 0, {}, stmts)
          [] n = "FunctionSegment"  -> Grammar(origin, 0, fn, <<>>)
          [] OTHER                  -> Grammar(origin, 0, {}, <<>>)]

\* The keyword sets a loaded dialect may hold.
LoadedSets ==
    {<<{}, {}, {}>>,
     <<{<<"A">>}, {<<"B">>, <<"A", "S">>}, {<<"c", "u", "r", "r", "e", "n", "t", "_", "d", "a", "t", "e">>}>>}

\* load_raw_dialect: a dialect whose set objects are at ids first + 1 ..
\* first + 3 of keyword_sets.
loaded_dialect(name, stmts, fn, first) ==
    [name |-> name,
     library |-> library_of(name, stmts, fn),
     sets |-> [k \in 1..Len(SetNames) |-> first + k]]

set_id(d, set_name) ==
    d.sets[CHOOSE k \in 1..Len(SetNames) : SetNames[k] = set_name]

\* ------------------------------------------------------- dialect operations
\* Dialect.copy_as: a new dialect holding its own copy of the library and
\* of every set of the dialect src.
copy_as(ds, heap, src, name) ==
    [dialects |->
        (name :> [name |-> name,
                  library |-> ds[src].library,
                  sets |-> [k \in 1..Len(SetNames) |-> Len(heap) + k]]) @@ ds,
     keyword_sets |-> heap \o [k \in 1..Len(SetNames) |-> heap[ds[src].sets[k]]]]

\* set.clear and set.update on the set object id.
sets_clear(heap, id) == [heap EXCEPT ![id] = {}]

sets_update(heap, id, values) == [heap EXCEPT ![id] = @ \cup elements(values)]

\* Dialect.get_segment: the definition bound to name in d's own library.
get_segment(d, name) == d.library[name]

\* Dialect.replace and Dialect.add: bind name to g in d's library.
replace(d, name, g) == [d EXCEPT !.library[name] = g]

add(d, name, g) == [d EXCEPT !.library = (name :> g) @@ @]

\* grammar.copy(insert=...): the elements, then the inserted ones.
grammar_copy(grammar, insert) == grammar \o insert

\* ------------------------------------------------------ the redshift module
\* The dialect object each module-level variable denotes (lines 27, 28, 30).
postgres_dialect == "postgres"

ansi_dialect == "ansi"

redshift_dialect_is_postgres == "postgres"

redshift_dialect == "redshift"

Statement(op, receiver, name, line, refs, insert) ==
    [op |-> op, receiver |-> receiver, name |-> name, line |-> line,
     refs |-> refs, insert |-> insert]

\* A class under @redshift_dialect.segment(replace=True), with its Refs.
Replacing(name, line, refs) ==
    Statement("segment_replace", redshift_dialect, name, line, refs, <<>>)

\* A class under @redshift_dialect.segment(), with its Refs.
Adding(name, line, refs) == Statement("segment", redshift_dialect, name, line, refs, <<>>)

\* Lines 479-489: the Refs inserted into the StatementSegment.
StatementInsert_misnamed_ref ==
    <<"TableAttributeSegment", "ColumnAttributeSegment", "ColumnEncodingSegment",
      "CreateUserSegment", "CreateGroupSegment", "AlterUserSegment",
      "AlterGroupsSegment">>

StatementInsert ==
    <<"TableAttributeSegment", "ColumnAttributeSegment", "ColumnEncodingSegment",
      "CreateUserSegment", "CreateGroupSegment", "AlterUserSegment",
      "AlterGroupSegment">>

\* The statements of dialect_redshift.py after the loads, in order.
RedshiftModule ==
    <<Statement("copy_as", postgres_dialect, "redshift", 30, {}, <<>>),
      Statement("clear", redshift_dialect, "unreserved_keywords", 33, {}, <<>>),
      Statement("update", redshift_dialect, "unreserved_keywords", 34, {}, <<>>),
      Statement("clear", redshift_dialect, "reserved_keywords", 38, {}, <<>>),
      Statement("update", redshift_dialect, "reserved_keywords", 39, {}, <<>>),
      Statement("clear", redshift_dialect, "bare_functions", 43, {}, <<>>),
      Statement("update", redshift_dialect, "bare_functions", 44, {}, <<>>),
      Statement("replace", redshift_dialect, "WellKnownTextGeometrySegment", 46, {}, <<>>),
      Replacing("DatePartFunctionNameSegment", 50, {}),
      Replacing("FunctionSegment", 61, {}),
      Adding("ColumnEncodingSegment", 72, {}),
      Adding("ColumnAttributeSegment", 100,
             {"ExpressionSegment", "NumericLiteralSegment", "ColumnEncodingSegment"}),
      Replacing("ColumnConstraintSegment", 130,
                {"TableReferenceSegment", "ColumnReferenceSegment"}),
      Adding("TableAttributeSegment", 150, {"ColumnReferenceSegment"}),
      Replacing("TableConstraintSegment", 175,
                {"ColumnReferenceSegment", "TableReferenceSegment"}),
      Replacing("LikeOptionSegment", 202, {}),
      Replacing("CreateTableStatementSegment", 214,
                {"TemporaryGrammar", "IfNotExistsGrammar", "TableReferenceSegment",
                 "ColumnReferenceSegment", "DatatypeSegment", "ColumnAttributeSegment",
                 "ColumnConstraintSegment", "TableConstraintSegment",
                 "LikeOptionSegment", "TableAttributeSegment"}),
      Replacing("InsertStatementSegment", 254,
                {"TableReferenceSegment", "SelectableGrammar",
                 "BracketedColumnReferenceListGrammar", "ValuesClauseSegment"}),
      Replacing("AccessStatementSegment", 284,
                {"TableReferenceSegment", "SchemaReferenceSegment",
                 "NakedIdentifierSegment", "DatabaseReferenceSegment",
                 "FunctionSegment", "ColumnReferenceSegment"}),
      Replacing("InsertStatementSegment", 442,
                {"TableReferenceSegment", "SelectableGrammar",
                 "BracketedColumnReferenceListGrammar", "ValuesClauseSegment"}),
      Statement("segment_replace", redshift_dialect, "StatementSegment", 474, {},
                StatementInsert),
      Adding("CreateUserSegment", 497,
             {"NakedIdentifierSegment", "QuotedLiteralSegment", "NumericLiteralSegment"}),
      Adding("CreateGroupSegment", 549, {"NakedIdentifierSegment"}),
      Adding("AlterUserSegment", 573,
             {"NakedIdentifierSegment", "QuotedLiteralSegment", "NumericLiteralSegment",
              "EqualsSegment", "LiteralGrammar"}),
      Adding("AlterGroupSegment", 660, {"NakedIdentifierSegment"})>>

\* The list a keyword set is updated with at the statement of this line.
update_values(line, text) ==
    CASE line = 34 -> keyword_list(text.unreserved)
      [] line = 39 -> keyword_list(text.reserved)
      [] line = 44 -> bare_function_list

\* The grammar a class body builds, evaluated before the decorator runs:
\* FunctionSegment copies the match_grammar of ansi's FunctionSegment (line
\* 68), StatementSegment copies the grammars of the StatementSegment that
\* redshift holds and inserts its Refs (lines 479-493).
class_grammar(ds, stmt) ==
    CASE stmt.name = "FunctionSegment" ->
           Grammar("redshift", stmt.line,
                   get_segment(ds[ansi_dialect], "FunctionSegment").match_grammar, <<>>)
      [] stmt.name = "StatementSegment" ->
           LET g == get_segment(ds[redshift_dialect], "StatementSegment")
           IN  Grammar("redshift", stmt.line, g.match_grammar,
                       grammar_copy(g.parse_grammar, stmt.insert))
      [] OTHER -> Grammar("redshift", stmt.line, stmt.refs, <<>>)


\* ------------------------------------------------------------------ actions
\* The rule is evaluated in a process that has not imported the redshift
\* dialect module.
DialectNotImported ==
    /\ dialects = <<>>
    /\ keyword_sets = <<>>
    /\ keyword_text = [unreserved |-> <<>>, reserved |-> <<>>]
    /\ dstep = 0
    /\ at_load = [dialects |-> <<>>, keyword_sets |-> <<>>]

Init ==
    /\ context_type \in {"with_compound_statement", "select_statement"}
    /\ expanded_segments \in
         (IF context_type = "with_compound_statement" THEN Statements ELSE {<<"body">>})
    /\ self_comma_style \in
         (IF context_type = "with_compound_statement" THEN CommaStyleConfigs
          ELSE {"trailing"})
    /\ pc = "start"
    /\ bracket_indices = <<>>
    /\ error_buffer = <<>>
    /\ readout = <<>>
    /\ raised = "none"
    /\ pass = 1
    /\ last_fixed = {}
    /\ DialectNotImported

\* _eval on a WITH statement, lines 45-207.
Eval ==
    /\ pc = "start"
    /\ context_type = "with_compound_statement"
    /\ LET brackets == find_brackets(expanded_segments, 1)
           r == eval_brackets(expanded_segments, self_comma_style, brackets,
                              1, 0, <<>>, <<>>)
       IN  /\ bracket_indices' = brackets
           /\ error_buffer' = r.error_buffer
           /\ readout' = r.readout
           /\ raised' = r.raised
           /\ pc' = IF r.raised = "none" THEN "done" ELSE "raised"
    /\ UNCHANGED <<context_type, expanded_segments, self_comma_style, pass, last_fixed>>
    /\ UNCHANGED dvars

\* _eval on any other segment, lines 45-46 and 207.
EvalOther ==
    /\ pc = "start"
    /\ context_type # "with_compound_statement"
    /\ pc' = "done"
    /\ UNCHANGED <<context_type, expanded_segments, self_comma_style, bracket_indices,
                   error_buffer, readout, raised, pass, last_fixed>>
    /\ UNCHANGED dvars

\* The fix-applier rewrites the statement with the fixes of the findings
\* returned, and the rule is evaluated again on the result.
ApplyFixes ==
    /\ pc = "done"
    /\ error_buffer # <<>>
    /\ pass < MaxPasses
    /\ expanded_segments' = apply_fixes(expanded_segments, error_buffer, 1)
    /\ last_fixed' = fixed_brackets(readout, error_buffer)
    /\ pass' = pass + 1
    /\ pc' = "start"
    /\ bracket_indices' = <<>>
    /\ error_buffer' = <<>>
    /\ readout' = <<>>
    /\ UNCHANGED <<context_type, self_comma_style, raised>>
    /\ UNCHANGED dvars

Next ==
    \/ Eval
    \/ EvalOther
    \/ ApplyFixes

Spec == Init /\ [][Next]_vars

\* ---------------------------------------------------- the module's execution
\* No rule is evaluated while the dialect module is imported.
RuleIdle ==
    /\ context_type = "select_statement"
    /\ expanded_segments = <<"body">>
    /\ self_comma_style = "trailing"
    /\ pc = "done"
    /\ bracket_indices = <<>>
    /\ error_buffer = <<>>
    /\ readout = <<>>
    /\ raised = "none"
    /\ pass = 1
    /\ last_fixed = {}

\* Lines 21-28: the keyword texts are imported and postgres and ansi are
\* loaded; each loaded dialect owns its three set objects.
DialectInit ==
    /\ RuleIdle
    /\ keyword_text \in KeywordTexts
    /\ \E stmts \in StatementLists, fn \in FunctionGrammars, ks \in LoadedSets :
          /\ dialects =
                ("postgres" :> loaded_dialect("postgres", stmts, {"ExpressionSegment"},
                                                Len(SetNames)))
                @@ ("ansi" :> loaded_dialect("ansi", <<"SelectableGrammar">>, fn, 0))
          /\ keyword_sets = ks \o ks
    /\ dstep = 1
    /\ at_load = [dialects |-> dialects, keyword_sets |-> keyword_sets]

Running == dstep \in 1..Len(RedshiftModule)

Constructed == dstep = Len(RedshiftModule) + 1

\* Line 30: redshift_dialect = postgres_dialect.copy_as("redshift").
CopyAs ==
    /\ Running
    /\ RedshiftModule[dstep].op = "copy_as"
    /\ LET stmt == RedshiftModule[dstep]
           r == copy_as(dialects, keyword_sets, stmt.receiver, stmt.name)
       IN  /\ dialects' = r.dialects
           /\ keyword_sets' = r.keyword_sets
    /\ dstep' = dstep + 1
    /\ UNCHANGED <<keyword_text, at_load, rvars>>

\* Lines 33, 38, 43: sets(name).clear().
ClearSet ==
    /\ Running
    /\ RedshiftModule[dstep].op = "clear"
    /\ LET stmt == RedshiftModule[dstep]
       IN  keyword_sets' =
               sets_clear(keyword_sets, set_id(dialects[stmt.receiver], stmt.name))
    /\ dstep' = dstep + 1
    /\ UNCHANGED <<dialects, keyword_text, at_load, rvars>>

\* Lines 34-36, 39-41, 44: sets(name).update(list).
UpdateSet ==
    /\ Running
    /\ RedshiftModule[dstep].op = "update"
    /\ LET stmt == RedshiftModule[dstep]
       IN  keyword_sets' =
               sets_update(keyword_sets, set_id(dialects[stmt.receiver], stmt.name),
                           update_values(stmt.line, keyword_text))
    /\ dstep' = dstep + 1
    /\ UNCHANGED <<dialects, keyword_text, at_load, rvars>>

\* Line 46: replace(WellKnownTextGeometrySegment=Nothing()).  Replacing a
\* name the library does not hold aborts the import (dstep = -1).
Replace ==
    /\ Running
    /\ RedshiftModule[dstep].op = "replace"
    /\ LET stmt == RedshiftModule[dstep]
           d == dialects[stmt.receiver]
       IN  IF stmt.name \in DOMAIN d.library
           THEN /\ dialects' = [dialects EXCEPT ![stmt.receiver] =
                                   replace(d, stmt.name,
                                           Grammar("redshift", stmt.line, {}, <<>>))]
                /\ dstep' = dstep + 1
           ELSE /\ dstep' = -1
                /\ UNCHANGED dialects
    /\ UNCHANGED <<keyword_sets, keyword_text, at_load, rvars>>

\* A class under @redshift_dialect.segment(replace=True): the class body
\* builds the grammar, the decorator binds the name to it.
SegmentReplace ==
    /\ Running
    /\ RedshiftModule[dstep].op = "segment_replace"
    /\ LET stmt == RedshiftModule[dstep]
           d == dialects[stmt.receiver]
       IN  IF stmt.name \in DOMAIN d.library
           THEN /\ dialects' = [dialects EXCEPT ![stmt.receiver] =
                                   replace(d, stmt.name, class_grammar(dialects, stmt))]
                /\ dstep' = dstep + 1
           ELSE /\ dstep' = -1
                /\ UNCHANGED dialects
    /\ UNCHANGED <<keyword_sets, keyword_text, at_load, rvars>>

\* A class under @redshift_dialect.segment(): the name must be new.
Segment ==
    /\ Running
    /\ RedshiftModule[dstep].op = "segment"
    /\ LET stmt == RedshiftModule[dstep]
           d == dialects[stmt.receiver]
       IN  IF stmt.name \notin DOMAIN d.library
           THEN /\ dialects' = [dialects EXCEPT ![stmt.receiver] =
                                   add(d, stmt.name, class_grammar(dialects, stmt))]
                /\ dstep' = dstep + 1
           ELSE /\ dstep' = -1
                /\ UNCHANGED dialects
    /\ UNCHANGED <<keyword_sets, keyword_text, at_load, rvars>>

DialectNext ==
    \/ CopyAs
    \/ ClearSet
    \/ UpdateSet
    \/ Replace
    \/ SegmentReplace
    \/ Segment

DialectSpec == DialectInit /\ [][DialectNext]_vars


\* ------------------------------------------------------- spans, as stated
\* The notions the properties are stated with, defined on the statement
\* itself and not on the counters of the scan.
Stopping(j) == is_code(expanded_segments[j]) /\ expanded_segments[j] # "comma"

HasStop(b) == \E j \in (b + 1)..Len(expanded_segments) : Stopping(j)

\* The stopping segment of bracket b: the first segment after it that is
\* code and is not a comma.
StopOf(b) ==
    CHOOSE j \in (b + 1)..Len(expanded_segments) :
        Stopping(j) /\ \A k \in (b + 1)..(j - 1) : ~Stopping(k)

SpanOf(b) == (b + 1)..(StopOf(b) - 1)

NewlinesIn(b) == {i \in SpanOf(b) : expanded_segments[i] = "newline"}
CommasIn(b) == {i \in SpanOf(b) : expanded_segments[i] = "comma"}
CommentsIn(b) == {i \in SpanOf(b) : expanded_segments[i] = "comment"}

\* The line of position i, counted from the bracket's own line, 0.
LineOf(b, i) == Cardinality({j \in NewlinesIn(b) : j < i})
StopLine(b) == Cardinality(NewlinesIn(b))
CommentOnLine(b, l) == \E i \in CommentsIn(b) : LineOf(b, i) = l

\* A blank line: two newlines with no comment between them.
HasBlankLine(b) ==
    \E i, j \in NewlinesIn(b) :
        i < j /\ \A k \in (i + 1)..(j - 1) : expanded_segments[k] # "comment"

CommaOf(b) == CHOOSE c \in CommasIn(b) : \A d \in CommasIn(b) : d <= c

Relationship(b) ==
    IF CommasIn(b) = {} THEN "final"
    ELSE IF NewlinesIn(b) = {} THEN "oneline"
    ELSE IF LineOf(b, CommaOf(b)) = 0 THEN "trailing"
    ELSE IF LineOf(b, CommaOf(b)) = StopLine(b) THEN "leading"
    ELSE "floating"

\* The brackets evaluated so far in this pass, and the findings of one.
Evaluated == {readout[k].bracket_idx : k \in 1..Len(readout)}

FindingsFor(b) == {n \in 1..Len(error_buffer) : error_buffer[n].anchor = StopOf(b)}

\* ------------------------------------------------------------------ claims
\* C1: an evaluated bracket whose span, up to the stopping segment, holds a
\* blank line gets no finding.
C1_BlankLineNoFinding ==
    \A b \in Evaluated : (HasStop(b) /\ HasBlankLine(b)) => FindingsFor(b) = {}

C1_Witness ==
    /\ pc = "done"
    /\ error_buffer # <<>>
    /\ \E b \in Evaluated : HasBlankLine(b) /\ CommentsIn(b) # {}

\* C4: the comma relationship logged for a span is final, oneline,
\* trailing, leading or floating as the span alone decides.
C4_Classification ==
    \A k \in 1..Len(readout) :
        HasStop(readout[k].bracket_idx) =>
            readout[k].comma_style = Relationship(readout[k].bracket_idx)

C4_Witness ==
    /\ pc = "done"
    /\ \E k \in 1..Len(readout) : readout[k].comma_style = "floating"
    /\ \E k \in 1..Len(readout) : readout[k].comma_style = "final"

\* C5: the fix of a oneline span has two newlines; with comma_style
\* "trailing" it targets the segment after the comma, replacing it when it
\* is whitespace and inserting before it otherwise; with "leading" it
\* inserts before the comma.
C5_OnelineFix ==
    \A b \in Evaluated : \A n \in FindingsFor(b) :
        Relationship(b) = "oneline" =>
            LET f == error_buffer[n]
                c == CommaOf(b)
            IN  /\ self_comma_style = "trailing" =>
                      /\ f.fix_point = c + 1
                      /\ f.fix_type = IF expanded_segments[c + 1] = "whitespace"
                                       THEN "replace" ELSE "create_before"
                      /\ f.num_newlines = 2
                /\ self_comma_style = "leading" =>
                      /\ f.fix_point = c
                      /\ f.fix_type = "create_before"
                      /\ f.num_newlines = 2

C5_Witness ==
    /\ pc = "done"
    /\ self_comma_style = "trailing"
    /\ \E b \in Evaluated : \E n \in FindingsFor(b) :
          /\ Relationship(b) = "oneline"
          /\ error_buffer[n].fix_type = "replace"

\* C6: the fix of a span that is not oneline and has no comment on the line
\* before the stopping line has one newline; for trailing, final and
\* floating it replaces the whitespace just before the stopping segment or,
\* without such whitespace, inserts before the stopping segment; for
\* leading it inserts before the comma.
C6_DefaultFix ==
    \A b \in Evaluated : \A n \in FindingsFor(b) :
        (Relationship(b) # "oneline" /\ ~CommentOnLine(b, StopLine(b) - 1)) =>
            LET f == error_buffer[n]
                stop == StopOf(b)
            IN  /\ f.num_newlines = 1
                /\ Relationship(b) \in {"trailing", "final", "floating"} =>
                      IF expanded_segments[stop - 1] = "whitespace"
                      THEN f.fix_type = "replace" /\ f.fix_point = stop - 1
                      ELSE f.fix_type = "create_before" /\ f.fix_point = stop
                /\ Relationship(b) = "leading" =>
                      f.fix_type = "create_before" /\ f.fix_point = CommaOf(b)

C6_Witness ==
    /\ pc = "done"
    /\ \E b \in Evaluated : \E n \in FindingsFor(b) :
          Relationship(b) = "leading" /\ ~CommentOnLine(b, StopLine(b) - 1)
    /\ \E b \in Evaluated : \E n \in FindingsFor(b) :
          Relationship(b) = "final" /\ error_buffer[n].fix_type = "replace"

\* The findings _eval hands back: none when it raised.
Returned == IF pc = "done" THEN error_buffer ELSE <<>>

ReturnedFor(b) == {n \in 1..Len(Returned) : Returned[n].anchor = StopOf(b)}

Brackets == {bracket_indices[k] : k \in 1..Len(bracket_indices)}

\* C2: every evaluated bracket whose span has no blank line gets exactly
\* one finding, anchored at the stopping segment, whose fix carries two
\* newlines for a oneline span and one newline otherwise.
C2_OneFindingPerViolation ==
    pc # "start" =>
        \A b \in Brackets :
            ~HasBlankLine(b) =>
                /\ Cardinality(ReturnedFor(b)) = 1
                /\ \A n \in ReturnedFor(b) :
                      Returned[n].num_newlines =
                          IF Relationship(b) = "oneline" THEN 2 ELSE 1

\* C3: the brackets evaluated are exactly the brackets of the CTE bodies;
\* no bracket of a column list is evaluated.
C3_OnlyQueryBrackets ==
    pc # "start" =>
        Brackets = {i \in 1..Len(expanded_segments) : expanded_segments[i] = "query"}

\* The first line of the run of comment lines that ends at the line before
\* the stopping line, and the first segment of a line.
RunStart(b) ==
    CHOOSE l \in 0..(StopLine(b) - 1) :
        /\ \A m \in l..(StopLine(b) - 1) : CommentOnLine(b, m)
        /\ (l > 0 => ~CommentOnLine(b, l - 1))

FirstOfLine(b, l) ==
    IF l = 0 THEN b + 1
    ELSE (CHOOSE i \in NewlinesIn(b) : LineOf(b, i) = l - 1) + 1

\* C7: the fix of a span that is not oneline and has a comment on the line
\* before the stopping line inserts one newline before the first segment of
\* the earliest line of the run of comment lines that ends there.
C7_CommentRunFix ==
    pc # "start" =>
        \A b \in Brackets :
            (/\ ~HasBlankLine(b)
             /\ Relationship(b) # "oneline"
             /\ CommentOnLine(b, StopLine(b) - 1)) =>
                \E n \in ReturnedFor(b) :
                    /\ Returned[n].fix_type = "create_before"
                    /\ Returned[n].num_newlines = 1
                    /\ Returned[n].fix_point = FirstOfLine(b, RunStart(b))

\* C8: without a comma_style of "trailing" or "leading", a oneline span
\* without a blank line still gets a finding, and its fix targets a segment
\* between the bracket and the stopping segment.
C8_FallbackPlacement ==
    (pc # "start" /\ self_comma_style = "none") =>
        \A b \in Brackets :
            (~HasBlankLine(b) /\ Relationship(b) = "oneline") =>
                \E n \in ReturnedFor(b) :
                    Returned[n].fix_point \in (b + 1)..StopOf(b)

C10_NeverRaises ==
    self_comma_style \in {"trailing", "leading"} => raised = "none"

\* C14: the cycle of evaluating and applying the fixes ends with a pass
\* that returns no finding: it does not end with an exception, and it does
\* not reach the last pass allowed with findings left.
C14_CycleConverges ==
    (pc = "raised" \/ (pc = "done" /\ pass = MaxPasses)) =>
        (pc = "done" /\ error_buffer = <<>>)

\* What the evaluation of the bracket b gives on its span alone, from the
\* bracket to its stopping segment, with positions counted in the statement.
SpanFinding(b) ==
    LET e == eval_bracket(SubSeq(expanded_segments, b, StopOf(b)), 1,
                          self_comma_style, 0)
    IN  IF e.err = "none" /\ e.found
        THEN {[anchor |-> e.result.anchor + (b - 1),
               fix_type |-> e.result.fix_type,
               fix_point |-> e.result.fix_point + (b - 1),
               num_newlines |-> e.result.num_newlines]}
        ELSE {}

\* C15: the findings returned for a bracket are those its span alone gives,
\* whatever the other brackets are; the target of a fix lies between the
\* bracket and its stopping segment; findings come in bracket order.
C15_FindingsIndependent ==
    pc # "start" =>
        /\ \A b \in Brackets :
              /\ {Returned[n] : n \in ReturnedFor(b)} = SpanFinding(b)
              /\ \A n \in ReturnedFor(b) : Returned[n].fix_point \in b..StopOf(b)
        /\ \A m, n \in 1..Len(Returned) :
              m < n => Returned[m].anchor < Returned[n].anchor

\* The segments of a statement that are not whitespace.
NonWhitespace(segs) == SelectSeq(segs, LAMBDA seg : seg # "whitespace")

\* s2 is s1 with newline segments added and nothing else changed.
RECURSIVE NewlinesAdded(_, _)
NewlinesAdded(s1, s2) ==
    IF s2 = <<>> THEN s1 = <<>>
    ELSE \/ s1 # <<>> /\ Head(s1) = Head(s2) /\ NewlinesAdded(Tail(s1), Tail(s2))
         \/ Head(s2) = "newline" /\ NewlinesAdded(s1, Tail(s2))

\* Every fix emitted inserts before its target or replaces a whitespace
\* segment, with one or two newlines.
FixesOnlyAddNewlines ==
    \A n \in 1..Len(error_buffer) :
        /\ error_buffer[n].fix_type \in {"create_before", "replace"}
        /\ error_buffer[n].fix_type = "replace" =>
              expanded_segments[error_buffer[n].fix_point] = "whitespace"
        /\ error_buffer[n].num_newlines \in {1, 2}

\* C16: every fix the rule emits inserts newlines before a segment or
\* replaces a whitespace segment with newlines, and applying the fixes of a
\* pass leaves the non-whitespace segments of the statement as they were,
\* with newlines added.
C16_FixesPreserveContent ==
    [][/\ FixesOnlyAddNewlines'
       /\ pass' = pass + 1 =>
             /\ NewlinesAdded(NonWhitespace(expanded_segments),
                              NonWhitespace(expanded_segments'))
             /\ Len(NonWhitespace(expanded_segments'))
                   > Len(NonWhitespace(expanded_segments))]_vars

\* The second pass has evaluated a statement in which the first pass
\* replaced the whitespace between a bracket and its stopping segment by a
\* newline, and inserted newlines for another bracket.
C16_Witness ==
    /\ pc = "done"
    /\ pass = 2
    /\ \E f \in last_fixed :
          /\ f.readout.comma_style = "final"
          /\ f.readout.seg_idx = 2
          /\ f.readout.line_idx = 0
          /\ f.readout.comment_lines = <<>>
          /\ expanded_segments[bracket_indices[f.ordinal] + 1] = "newline"
          /\ Stopping(bracket_indices[f.ordinal] + 2)
    /\ \E f \in last_fixed : f.readout.comma_style = "oneline"

\* ---------------------------------------------------- claims on the dialect
\* The content of the set objects of the dialect d, by set.
SetsOf(ds, heap, d) == [k \in 1..Len(SetNames) |-> heap[ds[d].sets[k]]]

\* The names the redshift module adds.
AddedNames ==
    {"ColumnEncodingSegment", "ColumnAttributeSegment", "TableAttributeSegment",
     "CreateUserSegment", "CreateGroupSegment", "AlterUserSegment",
     "AlterGroupSegment"}

\* C11: at every point of the construction, postgres and ansi hold the
\* library and the keyword sets they held when loaded, and once redshift is
\* derived every name it neither replaces nor adds is bound in redshift to
\* the definition postgres had at derivation.
C11_ConstructionFrame ==
    dstep # 0 =>
        /\ \A d \in {"postgres", "ansi"} :
              /\ dialects[d] = at_load.dialects[d]
              /\ SetsOf(dialects, keyword_sets, d)
                    = SetsOf(at_load.dialects, at_load.keyword_sets, d)
        /\ "redshift" \in DOMAIN dialects =>
              \A n \in DOMAIN at_load.dialects["postgres"].library :
                  n \notin ReplacedNames \cup AddedNames =>
                      /\ n \in DOMAIN dialects["redshift"].library
                      /\ dialects["redshift"].library[n]
                            = at_load.dialects["postgres"].library[n]

\* The construction is complete, it changed redshift's keyword sets and
\* library, and postgres held keywords that redshift dropped.
C11_Witness ==
    /\ Constructed
    /\ SetsOf(dialects, keyword_sets, "postgres")[1] # {}
    /\ \A k \in 1..Len(SetNames) :
          SetsOf(dialects, keyword_sets, "redshift")[k]
            # SetsOf(dialects, keyword_sets, "postgres")[k]
    /\ dialects["redshift"].library["FunctionSegment"]
          # dialects["postgres"].library["FunctionSegment"]
    /\ dialects["redshift"].library["FunctionSegment"].match_grammar
          = dialects["ansi"].library["FunctionSegment"].match_grammar
    /\ dialects["redshift"].library["ExpressionSegment"]
          = dialects["postgres"].library["ExpressionSegment"]

\* The names a definition refers to with Ref.
Refs(g) == g.match_grammar \cup elements(g.parse_grammar)

\* The names bound in d's library to a definition of the redshift module.
InstalledByRedshift(d) == {n \in DOMAIN d.library : d.library[n].origin = "redshift"}

\* C12: when the construction is complete, every Ref of every definition
\* the redshift module installed names a binding of redshift's own library.
C12_ReferencesResolve ==
    Constructed =>
        \A n \in InstalledByRedshift(dialects["redshift"]) :
            Refs(dialects["redshift"].library[n]) \subseteq DOMAIN dialects["redshift"].library

\* The construction is complete and the StatementSegment of redshift holds
\* the inherited statement kinds and the four Refs inserted before their
\* classes were registered.
C12_Witness ==
    /\ Constructed
    /\ LET g == dialects["redshift"].library["StatementSegment"]
       IN  /\ g.origin = "redshift"
           /\ Len(g.parse_grammar) > Len(StatementInsert) + 1
           /\ {"CreateUserSegment", "CreateGroupSegment", "AlterUserSegment",
               "AlterGroupSegment"} \subseteq Refs(g)
    /\ "AlterGroupSegment" \notin DOMAIN dialects["postgres"].library

\* The lines of the last update of each keyword set, by set.
LastUpdateLine == <<34, 39, 44>>

\* C13: when the construction is complete, every member of each keyword
\* set of redshift is an uppercase string, and each set holds exactly the
\* values of its last update.
C13_KeywordSetsUppercase ==
    Constructed =>
        \A k \in 1..Len(SetNames) :
            LET members == SetsOf(dialects, keyword_sets, "redshift")[k]
            IN  /\ \A s \in members : s = str_upper(s)
                /\ members = elements(update_values(LastUpdateLine[k], keyword_text))

\* ---------------------------------------------------------------- typing
TypeOK ==
    /\ pc \in {"start", "done", "raised"}
    /\ raised \in {"none", "IndexError", "KeyError", "UnboundLocalError"}
    /\ \A i \in 1..Len(expanded_segments) : expanded_segments[i] \in SegmentKinds
    /\ pass \in 1..MaxPasses

====
